---- MODULE Spec2Model ----
(***************************************************************************)
(* A model of src/app.py: the connectivity monitor.                        *)
(*                                                                         *)
(*   - the scheduler: start_auto_testing and the _auto_test_loop thread,   *)
(*     with _auto_lock, _auto_stop_event, _auto_thread and                 *)
(*     _auto_interval_seconds;                                             *)
(*   - the log store: append_log and parse_logs on LOG_FILE;               *)
(*   - the statistics: api_stats.                                          *)
(*                                                                         *)
(* Text (file content, lines, fields) is a sequence of tokens. A token is  *)
(* one of the characters the code or the file layer treats specially (tab, *)
(* newline, space, carriage return) or a run of other characters: a word,  *)
(* or the rendering of a number the code formats and parses (date, hour,   *)
(* minutes and seconds, latency). Times are seconds since day 0, 00:00:00; *)
(* a latency is in thousandths of a millisecond.                           *)
(***************************************************************************)
EXTENDS Integers, Sequences, FiniteSets, TLC

\* ------------------------------------------------------------ bounds
NCallers == 2          \* concurrent callers of start_auto_testing
MaxAppends == 2        \* whole append_log calls made one after the other
MaxLoopProbes == 1     \* wake-ups of the loop that go on to probe
MaxRows == 3           \* lines after the header in a store drawn for the statistics

\* ------------------------------------------------- program constants
DEFAULT_AUTO_INTERVAL_SECONDS == 30
MIN_AUTO_INTERVAL_SECONDS == 1

\* --------------------------------------------------------------- text
Tok(k, s, n) == [k |-> k, s |-> s, n |-> n]
TAB == Tok("ch", "\t", 0)
NL == Tok("ch", "\n", 0)
SP == Tok("ch", " ", 0)
CR == Tok("ch", "\r", 0)
\* a run of characters holding no tab, newline, space or carriage return
W(s) == Tok("w", s, 0)
\* strftime's "%Y-%m-%d" of day d, "%H" of hour h, ":%M:%S" of second ms of the hour
DateTok(d) == Tok("date", "", d)
HourTok(h) == Tok("hour", "", h)
MinSecTok(ms) == Tok("minsec", "", ms)
\* the "%.2f" rendering of c hundredths
NumTok(c) == Tok("num", "", c)

None == <<>>
Some(v) == <<v>>

Last(s) == s[Len(s)]

\* a sequence given as a function on 1..n, as a tuple: TLC then holds its
\* elements instead of evaluating them anew at each use
AsTuple(f) == SubSeq(f, 1, Len(f))

\* str.replace(a, b) for single characters a, b
Replace(text, a, b) ==
  AsTuple([i \in 1..Len(text) |-> IF text[i] = a THEN b ELSE text[i]])

\* the k-th smallest member of a set of positions
NthPos(S, k) == CHOOSE i \in S : Cardinality({j \in S : j <= i}) = k

\* str.split(sep): the pieces between the occurrences of sep (always >= 1 piece)
Split(text, sep) ==
  LET S == {i \in 1..Len(text) : text[i] = sep}
      m == Cardinality(S)
  IN AsTuple([k \in 1..(m + 1) |->
               SubSeq(text,
                      IF k = 1 THEN 1 ELSE NthPos(S, k - 1) + 1,
                      IF k = m + 1 THEN Len(text) ELSE NthPos(S, k) - 1)])

\* reading in text mode (newline=None): "\r\n" and a lone "\r" are read as "\n"
UniversalNewlines(text) ==
  IF \A i \in 1..Len(text) : text[i] # CR THEN text
  ELSE LET kept == SelectSeq(AsTuple([i \in 1..Len(text) |-> i]),
                             LAMBDA i : ~(/\ text[i] = CR
                                          /\ i < Len(text)
                                          /\ text[i + 1] = NL))
       IN AsTuple([k \in 1..Len(kept) |->
                     IF text[kept[k]] = CR THEN NL ELSE text[kept[k]]])

\* iterating a text file: each line with its newline, the last maybe without
FileLines(text) ==
  LET pieces == Split(UniversalNewlines(text), NL)
      n == Len(pieces)
  IN AsTuple([k \in 1..(IF pieces[n] = <<>> THEN n - 1 ELSE n) |->
               IF k < n THEN Append(pieces[k], NL) ELSE pieces[k]])

\* str.rstrip("\n")
RECURSIVE RStripNL(_)
RStripNL(text) ==
  IF text # <<>> /\ Last(text) = NL THEN RStripNL(SubSeq(text, 1, Len(text) - 1))
  ELSE text

\* "\t".join(fields)
RECURSIVE JoinTab(_)
JoinTab(fields) ==
  IF fields = <<>> THEN <<>>
  ELSE IF Len(fields) = 1 THEN fields[1]
  ELSE fields[1] \o <<TAB>> \o JoinTab(Tail(fields))

\* datetime.strftime("%Y-%m-%d %H:%M:%S")
Strftime(t) ==
  <<DateTok(t \div 86400), SP, HourTok((t % 86400) \div 3600), MinSecTok(t % 3600)>>

\* f"{latency_ms:.2f}" of a latency in thousandths: to the nearest hundredth
\* (the latencies drawn here are never halfway between two hundredths)
Fmt2f(l) == <<NumTok((l + 5) \div 10)>>

HEADER ==
  <<W("timestamp"), TAB, W("mode"), TAB, W("status"), TAB, W("latency_ms"), TAB,
    W("detail"), NL>>

\* ---------------------------------------------------------- parse_logs
Str(s) == <<W(s)>>

\* characters in a token
TokLen(tok) ==
  CASE tok.k = "ch" -> 1
    [] tok.k = "date" -> 10
    [] tok.k = "hour" -> 2
    [] tok.k = "minsec" -> 6
    [] tok.k = "num" -> IF tok.n < 1000 THEN 4 ELSE 5
    [] tok.k = "part" -> tok.n % 100
    [] OTHER -> Len(tok.s)

\* text[:n]: a token the cut falls into is kept as the part before the cut
RECURSIVE Prefix(_, _)
Prefix(text, n) ==
  IF text = <<>> \/ n <= 0 THEN <<>>
  ELSE IF TokLen(Head(text)) <= n
       THEN <<Head(text)>> \o Prefix(Tail(text), n - TokLen(Head(text)))
       ELSE <<Tok("part", Head(text).s, Head(text).n * 100 + n)>>

\* str.strip() of spaces, as float() does before it reads the number
RECURSIVE StripSP(_)
StripSP(text) ==
  IF text # <<>> /\ Head(text) = SP THEN StripSP(Tail(text))
  ELSE IF text # <<>> /\ Last(text) = SP THEN StripSP(SubSeq(text, 1, Len(text) - 1))
  ELSE text

\* lines 98-103: None for an empty field and for one float() rejects; else the
\* number, in thousandths
ParseLatency(latency) ==
  IF latency = <<>> THEN None
  ELSE LET t == StripSP(latency) IN
       IF Len(t) = 1 /\ t[1].k = "num" THEN Some(t[1].n * 10) ELSE None

\* lines 94-112: the row of one line, or nothing for a line of fewer than 5 fields
ParseLine(raw) ==
  LET parts == Split(RStripNL(raw), TAB) IN
  IF Len(parts) < 5 THEN <<>>
  ELSE << [timestamp |-> parts[1], mode |-> parts[2], status |-> parts[3],
           latency_ms |-> ParseLatency(parts[4]), detail |-> parts[5]] >>

RECURSIVE ParseLines(_)
ParseLines(lines) ==
  IF lines = <<>> THEN <<>> ELSE ParseLine(Head(lines)) \o ParseLines(Tail(lines))

\* parse_logs() without line 92: the first line is parsed like the others
parse_logs_with_first_line(st) ==
  IF ~st.exists THEN <<>> ELSE ParseLines(FileLines(st.text))

\* parse_logs(): no rows for an absent file; else the first line is skipped
parse_logs(st) ==
  IF ~st.exists THEN <<>>
  ELSE LET lines == FileLines(st.text) IN
       IF lines = <<>> THEN <<>> ELSE ParseLines(Tail(lines))

\* ------------------------------------------------------------ api_stats
\* datetime.strptime(ts, "%Y-%m-%d %H:%M:%S"): the time, or None for ValueError
Strptime(ts) ==
  IF /\ Len(ts) = 4
     /\ ts[1].k = "date" /\ ts[2] = SP /\ ts[3].k = "hour" /\ ts[4].k = "minsec"
     /\ ts[3].n < 24 /\ ts[4].n < 3600
  THEN Some(ts[1].n * 86400 + ts[3].n * 3600 + ts[4].n)
  ELSE None

\* dt.replace(minute=0, second=0, microsecond=0)
TruncHour(t) == t - (t % 3600)

\* dt.strftime("%Y-%m-%d %H")
HourKey(t) == <<DateTok(t \div 86400), SP, HourTok((t % 86400) \div 3600)>>

\* round(a / b) to the nearest integer (no quotient here is halfway)
RoundDiv(a, b) == (2 * a + b) \div (2 * b)

\* round(max(0.0, seconds / 60), 1), in tenths of a minute
RoundMinutes(seconds) == IF seconds <= 0 THEN 0 ELSE RoundDiv(seconds, 6)

\* round((part / whole) * 100, 2) if whole else 0.0, in hundredths of a percent
Rate(part, whole) == IF whole = 0 THEN 0 ELSE RoundDiv(part * 10000, whole)

RECURSIVE SelectRows(_, _)
SelectRows(rows, status) ==
  IF rows = <<>> THEN <<>>
  ELSE (IF Head(rows).status = Str(status) THEN <<Head(rows)>> ELSE <<>>)
       \o SelectRows(Tail(rows), status)

RECURSIVE LatencyValues(_)
LatencyValues(rows) ==
  IF rows = <<>> THEN <<>>
  ELSE Head(rows).latency_ms \o LatencyValues(Tail(rows))

RECURSIVE Sum(_)
Sum(xs) == IF xs = <<>> THEN 0 ELSE Head(xs) + Sum(Tail(xs))

\* line 162: round(mean(latency_values), 2) in hundredths, or None
AvgLatency(rows) ==
  LET v == LatencyValues(rows) IN
  IF v = <<>> THEN None ELSE Some(RoundDiv(Sum(v), 10 * Len(v)))

\* lines 164, 166: ts.split(" ")[1]; None stands for the IndexError
TimeOfDay(ts) ==
  LET pieces == Split(ts, SP) IN
  IF Len(pieces) >= 2 THEN Some(pieces[2]) ELSE None

\* lines 167-176
SustainedConnectivityMinutes(rows, failed_rows) ==
  IF rows # <<>> /\ Last(rows).status = Str("success") /\ failed_rows # <<>>
  THEN LET last_test_dt == Strptime(Last(rows).timestamp)
           last_failed_dt == Strptime(Last(failed_rows).timestamp)
       IN IF last_test_dt = None \/ last_failed_dt = None THEN None
          ELSE Some(RoundMinutes(last_test_dt[1] - last_failed_dt[1]))
  ELSE None

\* lines 181-190: the walk over reversed(rows) from row i down, carrying
\* (streak_start, streak_end); it breaks at the first row that is not failed
RECURSIVE StreakWalk(_, _, _, _)
StreakWalk(rows, i, streak_start, streak_end) ==
  IF i = 0 \/ rows[i].status # Str("failed") THEN <<streak_start, streak_end>>
  ELSE LET row_ts == Strptime(rows[i].timestamp) IN
       IF row_ts = None THEN StreakWalk(rows, i - 1, streak_start, streak_end)
       ELSE StreakWalk(rows, i - 1, row_ts,
                       IF streak_end = None THEN row_ts ELSE streak_end)

\* lines 177-193, in tenths of a minute
ConsecutiveFailedMinutes(rows) ==
  IF rows # <<>> /\ Last(rows).status = Str("failed")
  THEN LET w == StreakWalk(rows, Len(rows), None, None) IN
       IF w[1] # None /\ w[2] # None THEN RoundMinutes(w[2][1] - w[1][1]) ELSE 0
  ELSE 0

\* a dict: its items in insertion order; the place of a key, 0 if it has none
DictIndex(d, key) ==
  IF \E i \in 1..Len(d) : d[i].key = key
  THEN CHOOSE i \in 1..Len(d) : d[i].key = key
  ELSE 0

\* key in d
DictHas(d, key) == DictIndex(d, key) # 0

\* d[key] = counts: a new key goes last, a known key keeps its place
DictPut(d, key, counts) ==
  LET i == DictIndex(d, key) IN
  IF i = 0 THEN Append(d, [key |-> key, counts |-> counts])
  ELSE [d EXCEPT ![i] = [key |-> key, counts |-> counts]]

ZeroCounts == [success |-> 0, failed |-> 0]

\* d[key][status] += 1 for a key of d and a status that is success or failed
DictCount(d, key, status) ==
  LET i == DictIndex(d, key) IN
  IF status = Str("success") THEN [d EXCEPT ![i].counts.success = @ + 1]
  ELSE [d EXCEPT ![i].counts.failed = @ + 1]

\* lines 195-200: None stands for the KeyError of a status that is neither
\* success nor failed
RECURSIVE ByHour(_, _)
ByHour(rows, d) ==
  IF rows = <<>> THEN Some(d)
  ELSE LET hour == Prefix(Head(rows).timestamp, 13)
           d1 == IF DictHas(d, hour) THEN d ELSE DictPut(d, hour, ZeroCounts)
       IN IF Head(rows).status \in {Str("success"), Str("failed")}
          THEN ByHour(Tail(rows), DictCount(d1, hour, Head(rows).status))
          ELSE None

\* lines 207-212: for i in range(n): d[strftime(window_start + i hours)] = zeros.
\* A dict assigned key by key holds each distinct key once, at the place of
\* its first assignment.
Window(window_start, n) ==
  LET keys == AsTuple([i \in 1..n |-> HourKey(window_start + 3600 * (i - 1))])
      first == SelectSeq(AsTuple([i \in 1..n |-> i]),
                         LAMBDA i : \A j \in 1..(i - 1) : keys[j] # keys[i])
  IN AsTuple([k \in 1..Len(first) |->
                [key |-> keys[first[k]], counts |-> ZeroCounts]])

\* lines 214-226, for one of the two windows
RECURSIVE CountWindow(_, _, _, _)
CountWindow(rows, current_hour, window_start, d) ==
  IF rows = <<>> THEN d
  ELSE LET ts == Strptime(Head(rows).timestamp)
           rest == Tail(rows)
       IN IF ts = None THEN CountWindow(rest, current_hour, window_start, d)
          ELSE LET ts_hour == TruncHour(ts[1])
                   hour_key == HourKey(ts_hour)
               IN IF ts_hour > current_hour
                  THEN CountWindow(rest, current_hour, window_start, d)
                  ELSE IF ts_hour >= window_start /\ DictHas(d, hour_key)
                  THEN CountWindow(rest, current_hour, window_start,
                                   DictCount(d, hour_key, Head(rows).status))
                  ELSE CountWindow(rest, current_hour, window_start, d)

\* lines 228-250: one entry per item of the dict
Hourly(d) ==
  AsTuple([i \in 1..Len(d) |->
             [hour |-> d[i].key,
              failed |-> d[i].counts.failed,
              connectivity_rate |->
                Rate(d[i].counts.success,
                     d[i].counts.success + d[i].counts.failed)]])

\* lines 202-212 and 228-250: the window of n hours ending at the current hour
HourlyWindow(rows, now, n) ==
  LET current_hour == TruncHour(now)
      window_start == current_hour - 3600 * (n - 1)
  IN Hourly(CountWindow(rows, current_hour, window_start,
                        Window(window_start, n)))

Raise(error) == [kind |-> "raise", error |-> error, body |-> <<>>]

\* api_stats(): the response to GET /api/stats, or the exception it raises
api_stats(st, now) ==
  LET rows == parse_logs(st)
      total == Len(rows)
      success == Len(SelectRows(rows, "success"))
      failed_rows == SelectRows(rows, "failed")
      last_test_time == IF rows # <<>> THEN TimeOfDay(Last(rows).timestamp)
                        ELSE Some(Str("-"))
      last_failed_time == IF failed_rows # <<>>
                          THEN TimeOfDay(Last(failed_rows).timestamp)
                          ELSE Some(Str("-"))
      by_hour == ByHour(rows, <<>>)
  IN IF last_test_time = None THEN Raise("IndexError")
     ELSE IF last_failed_time = None THEN Raise("IndexError")
     ELSE IF by_hour = None THEN Raise("KeyError")
     ELSE [kind |-> "ok", error |-> "",
           body |-> <<[
             total |-> total,
             success |-> success,
             failed |-> total - success,
             success_rate |-> Rate(success, total),
             avg_latency_ms |-> AvgLatency(rows),
             last_test_status |-> IF rows # <<>> THEN Some(Last(rows).status)
                                  ELSE None,
             last_test_time |-> last_test_time[1],
             last_failed_time |-> last_failed_time[1],
             sustained_connectivity_minutes |->
               SustainedConnectivityMinutes(rows, failed_rows),
             consecutive_failed_minutes |-> ConsecutiveFailedMinutes(rows),
             hourly |-> by_hour[1],
             hourly_24 |-> HourlyWindow(rows, now, 24),
             hourly_48 |-> HourlyWindow(rows, now, 48)]>>]

\* ------------------------------------------------------------ processes
Callers == 1..NCallers
\* a call starts at most one thread
Loops == (NCallers + 1)..(NCallers + NCallers)
Procs == Callers \cup Loops

\* what run_connectivity_test can return: (status, latency_ms, detail)
Outcomes ==
  { [status |-> "success", latency |-> Some(12344),
     detail |-> <<W("HTTP"), SP, W("204")>>],
    [status |-> "failed", latency |-> None,
     detail |-> <<W("refused"), TAB, W("by"), NL, W("peer")>>] }

\* the seconds at which the clock is read while the scheduler runs
Seconds == {0, 1}

\* the interval_seconds arguments start_auto_testing is called with
IntervalArgs == {0, 5}

VARIABLES
  auto_lock,              \* _auto_lock: 0 when free, else the caller holding it
  auto_stop_event,        \* _auto_stop_event: its flag
  auto_thread,            \* _auto_thread: 0 for None, else the loop thread
  auto_interval_seconds,  \* _auto_interval_seconds
  store,                  \* LOG_FILE: whether it exists, and its content
  clock,                  \* datetime.now(), in seconds
  pc,                     \* each process's position in its code
  interval_seconds,       \* start_auto_testing's local, per caller
  run_initial_test,       \* start_auto_testing's parameter, per caller
  ret,                    \* start_auto_testing's return value, per caller
  line,                   \* append_log's local line, per process
  timeout,                \* the timeout the loop thread passed to wait()
  loop_probes,            \* wake-ups that went on to probe (bounds the run)
  h_header_writes,        \* history: the processes that wrote the header
  h_appends,              \* history: completed append_log calls
  h_stop_in_flight,       \* history: the stop flag was raised during a probe
  h_call,                 \* history: the arguments of the last whole append_log call
  resp                    \* the response of the last /api/stats request

vars ==
  <<auto_lock, auto_stop_event, auto_thread, auto_interval_seconds, store, clock,
    pc, interval_seconds, run_initial_test, ret, line, timeout,
    loop_probes, h_header_writes, h_appends, h_stop_in_flight, h_call, resp>>

sched_vars == <<auto_lock, auto_stop_event, auto_thread, auto_interval_seconds>>
caller_vars == <<interval_seconds, run_initial_test, ret>>
hist_vars == <<h_header_writes, h_appends, h_stop_in_flight, h_call>>

NoResp == [kind |-> "none", error |-> "", body |-> <<>>]

\* threading.Thread.is_alive()
is_alive(t) == pc[t] \notin {"unborn", "done"}

\* api_auto_status(), lines 143-144: what GET /api/auto/status reports
api_auto_status ==
  [running |-> (auto_thread # 0 /\ is_alive(auto_thread)),
   interval_seconds |-> auto_interval_seconds]

\* ------------------------------------------------------------ log store
\* append_log, lines 71-74: the line to be written
FormatLine(now, mode, r) ==
  JoinTab(<<Strftime(now), <<W(mode)>>, <<W(r.status)>>,
            IF r.latency # None THEN Fmt2f(r.latency[1]) ELSE <<>>,
            Replace(Replace(r.detail, TAB, SP), NL, SP)>>) \o <<NL>>

\* start_auto_testing returns v: its locals are gone
Return(c, v) ==
  /\ ret' = [ret EXCEPT ![c] = v]
  /\ interval_seconds' = [interval_seconds EXCEPT ![c] = 0]
  /\ run_initial_test' = [run_initial_test EXCEPT ![c] = FALSE]

\* where a process goes when its append_log returns
AfterAppend(p) == IF p \in Callers THEN "done" ELSE "top"

\* run_connectivity_test() returns (lines 45/64) and append_log begins (lines
\* 71-74): it reads the clock, which has not gone back since it was last read,
\* and builds the line. Nothing another thread can see lies between the two.
run_connectivity_test(p) ==
  /\ pc[p] = "test"
  /\ \E o \in Outcomes, now \in {t \in Seconds : t >= clock} :
       /\ clock' = now
       /\ line' = [line EXCEPT ![p] = FormatLine(now, "auto", o)]
  /\ pc' = [pc EXCEPT ![p] = "exists"]
  /\ UNCHANGED <<sched_vars, caller_vars, hist_vars, store, timeout, loop_probes,
                 resp>>

\* append_log, line 76: if not LOG_FILE.exists()
append_log_exists(p) ==
  /\ pc[p] = "exists"
  /\ pc' = [pc EXCEPT ![p] = IF ~store.exists THEN "header" ELSE "write"]
  /\ UNCHANGED <<sched_vars, caller_vars, hist_vars, store, clock, line,
                 timeout, loop_probes, resp>>

\* append_log, lines 77-78: write_text creates or truncates the file
append_log_header(p) ==
  /\ pc[p] = "header"
  /\ store' = [exists |-> TRUE, text |-> HEADER]
  /\ h_header_writes' = h_header_writes \cup {p}
  /\ pc' = [pc EXCEPT ![p] = "write"]
  /\ UNCHANGED <<sched_vars, caller_vars, h_appends, h_stop_in_flight, h_call,
                 clock, line, timeout, loop_probes, resp>>

\* append_log, lines 80-83: open("a") creates the file if absent; the line goes
\* to the end; start_auto_testing then returns True (line 67)
append_log_write(p) ==
  /\ pc[p] = "write"
  /\ store' = [exists |-> TRUE, text |-> store.text \o line[p]]
  /\ h_appends' = h_appends + 1
  /\ line' = [line EXCEPT ![p] = <<>>]
  /\ pc' = [pc EXCEPT ![p] = AfterAppend(p)]
  /\ IF p \in Callers THEN Return(p, "True") ELSE UNCHANGED caller_vars
  /\ UNCHANGED <<sched_vars, h_header_writes, h_stop_in_flight, h_call, clock,
                 timeout, loop_probes, resp>>

\* ------------------------------------------------------------ scheduler
\* start_auto_testing without mutual exclusion: the with block entered
\* whoever holds the lock
LockNeverHeld == TRUE

\* with _auto_lock: the lock can be taken
LockAvailable == auto_lock = 0

\* a call of start_auto_testing(i, r); line 52 clamps the interval
start_auto_testing_call(c) ==
  /\ pc[c] = "idle"
  /\ \E i \in IntervalArgs, r \in BOOLEAN :
       /\ interval_seconds' =
            [interval_seconds EXCEPT
               ![c] = IF i > MIN_AUTO_INTERVAL_SECONDS THEN i
                      ELSE MIN_AUTO_INTERVAL_SECONDS]
       /\ run_initial_test' = [run_initial_test EXCEPT ![c] = r]
  /\ pc' = [pc EXCEPT ![c] = "lock"]
  /\ UNCHANGED <<sched_vars, hist_vars, ret, store, clock, line, timeout,
                 loop_probes, resp>>

\* line 53: with _auto_lock
start_auto_testing_lock(c) ==
  /\ pc[c] = "lock"
  /\ LockAvailable
  /\ auto_lock' = c
  /\ pc' = [pc EXCEPT ![c] = "check"]
  /\ UNCHANGED <<auto_stop_event, auto_thread, auto_interval_seconds, caller_vars,
                 hist_vars, store, clock, line, timeout, loop_probes, resp>>

\* line 55: _auto_thread is not None and _auto_thread.is_alive()
already_running == auto_thread # 0 /\ is_alive(auto_thread)

\* lines 54-57, inside the lock: store the interval, then return False
\* (leaving the with block) when a loop is running
start_auto_testing_check(c) ==
  /\ pc[c] = "check"
  /\ auto_interval_seconds' = interval_seconds[c]
  /\ IF already_running
     THEN /\ Return(c, "False")
          /\ auto_lock' = 0
          /\ pc' = [pc EXCEPT ![c] = "done"]
     ELSE /\ pc' = [pc EXCEPT ![c] = "launch"]
          /\ UNCHANGED <<caller_vars, auto_lock>>
  /\ UNCHANGED <<auto_stop_event, auto_thread, hist_vars, store, clock,
                 line, timeout, loop_probes, resp>>

\* the threads not yet created
Unborn == {t \in Loops : pc[t] = "unborn"}

\* a start that launches the loop and returns True without the initial probe
start_auto_testing_launch_no_probe(c) ==
  /\ pc[c] = "launch"
  /\ Unborn # {}
  /\ auto_stop_event' = FALSE
  /\ LET t == CHOOSE u \in Unborn : \A v \in Unborn : u <= v IN
       /\ auto_thread' = t
       /\ pc' = [pc EXCEPT ![t] = "top", ![c] = "done"]
  /\ auto_lock' = 0
  /\ Return(c, "True")
  /\ UNCHANGED <<auto_interval_seconds, hist_vars, store, clock, line,
                 timeout, loop_probes, resp>>

\* lines 59-67: clear the stop flag, create and start the thread, leave the
\* with block; then the initial probe, or return True
start_auto_testing_launch(c) ==
  /\ pc[c] = "launch"
  /\ Unborn # {}
  /\ auto_stop_event' = FALSE
  /\ LET t == CHOOSE u \in Unborn : \A v \in Unborn : u <= v IN
       /\ auto_thread' = t
       /\ pc' = [pc EXCEPT ![t] = "top",
                           ![c] = IF run_initial_test[c] THEN "test" ELSE "done"]
  /\ auto_lock' = 0
  /\ IF run_initial_test[c] THEN UNCHANGED caller_vars ELSE Return(c, "True")
  /\ UNCHANGED <<auto_interval_seconds, hist_vars, store, clock, line,
                 timeout, loop_probes, resp>>

\* line 44: the loop calls _auto_stop_event.wait(_auto_interval_seconds)
auto_test_loop_wait(t) ==
  /\ pc[t] = "top"
  /\ timeout' = [timeout EXCEPT ![t] = auto_interval_seconds]
  /\ pc' = [pc EXCEPT ![t] = "waiting"]
  /\ UNCHANGED <<sched_vars, caller_vars, hist_vars, store, clock, line,
                 loop_probes, resp>>

\* a loop whose wait() gives up at the timeout: the thread ends at its first
\* wake-up without a probe
auto_test_loop_wake_return(t) ==
  /\ pc[t] = "waiting"
  /\ pc' = [pc EXCEPT ![t] = "done"]
  /\ timeout' = [timeout EXCEPT ![t] = 0]
  /\ UNCHANGED <<sched_vars, caller_vars, hist_vars, store, clock, line,
                 loop_probes, resp>>

\* a loop that sleeps for the interval instead of waiting on the stop event:
\* it probes at each wake-up, whatever the flag
auto_test_loop_wake_sleep(t) ==
  /\ pc[t] = "waiting"
  /\ loop_probes < MaxLoopProbes
  /\ loop_probes' = loop_probes + 1
  /\ pc' = [pc EXCEPT ![t] = "test"]
  /\ timeout' = [timeout EXCEPT ![t] = 0]
  /\ UNCHANGED <<sched_vars, caller_vars, hist_vars, store, clock, line,
                 resp>>

\* line 44: wait() returns True as soon as the flag is set, and the loop ends;
\* it returns False when the timeout passes with the flag unset, and the loop
\* goes on to probe
auto_test_loop_wake(t) ==
  /\ pc[t] = "waiting"
  /\ IF auto_stop_event
     THEN /\ pc' = [pc EXCEPT ![t] = "done"]
          /\ UNCHANGED loop_probes
     ELSE /\ loop_probes < MaxLoopProbes
          /\ loop_probes' = loop_probes + 1
          /\ pc' = [pc EXCEPT ![t] = "test"]
  /\ timeout' = [timeout EXCEPT ![t] = 0]
  /\ UNCHANGED <<sched_vars, caller_vars, hist_vars, store, clock, line,
                 resp>>

\* the state at import: no thread, the default interval, no log file yet
Init ==
  /\ auto_lock = 0
  /\ auto_stop_event = FALSE
  /\ auto_thread = 0
  /\ auto_interval_seconds = DEFAULT_AUTO_INTERVAL_SECONDS
  /\ store = [exists |-> FALSE, text |-> <<>>]
  /\ clock = 0
  /\ pc = [p \in Procs |-> IF p \in Callers THEN "idle" ELSE "unborn"]
  /\ interval_seconds = [c \in Callers |-> 0]
  /\ run_initial_test = [c \in Callers |-> FALSE]
  /\ ret = [c \in Callers |-> "none"]
  /\ line = [p \in Procs |-> <<>>]
  /\ timeout = [t \in Loops |-> 0]
  /\ loop_probes = 0
  /\ h_header_writes = {}
  /\ h_appends = 0
  /\ h_stop_in_flight = FALSE
  /\ h_call = <<>>
  /\ resp = NoResp

Next ==
  \/ \E c \in Callers : start_auto_testing_call(c)
  \/ \E c \in Callers : start_auto_testing_lock(c)
  \/ \E c \in Callers : start_auto_testing_check(c)
  \/ \E c \in Callers : start_auto_testing_launch(c)
  \/ \E t \in Loops : auto_test_loop_wait(t)
  \/ \E t \in Loops : auto_test_loop_wake(t)
  \/ \E p \in Procs : run_connectivity_test(p)
  \/ \E p \in Procs : append_log_exists(p)
  \/ \E p \in Procs : append_log_header(p)
  \/ \E p \in Procs : append_log_write(p)

Spec == Init /\ [][Next]_vars

\* the positions of a process between run_connectivity_test and the end of
\* append_log
InFlight == {"test", "exists", "header", "write"}

\* the scheduler with its stop event raised from outside: nothing in app.py
\* calls _auto_stop_event.set() (the stop endpoint answers 403), so the flag is
\* raised here by the environment, at any moment, to exercise line 44
auto_stop_event_set ==
  /\ ~auto_stop_event
  /\ auto_stop_event' = TRUE
  /\ h_stop_in_flight' =
       (h_stop_in_flight \/ \E t \in Loops : pc[t] \in InFlight)
  /\ UNCHANGED <<auto_lock, auto_thread, auto_interval_seconds, caller_vars,
                 h_header_writes, h_appends, h_call, store, clock, pc, line,
                 timeout, loop_probes, resp>>

NextStop ==
  \/ Next
  \/ auto_stop_event_set

SpecStop == Init /\ [][NextStop]_vars

\* ------------------------------------------------- claims on the scheduler
AliveLoops == {t \in Loops : is_alive(t)}
Launched == {t \in Loops : pc[t] # "unborn"}
ReturnedTrue == {c \in Callers : ret[c] = "True"}
Launchers == {c \in Callers : pc[c] \in InFlight}

\* C1: under every interleaving of concurrent start_auto_testing calls at most
\* one loop thread is alive and at most one was ever launched; at most one call
\* launches (it returns True, or is still at its initial probe), and once any
\* call has returned a loop is alive; when all calls have returned exactly one
\* returned True and the others False.
C1_AtMostOneLoop ==
  /\ Cardinality(AliveLoops) <= 1
  /\ Cardinality(Launched) <= 1
  /\ Cardinality(ReturnedTrue \cup Launchers) = Cardinality(Launched)
  /\ (\E c \in Callers : pc[c] = "done") => Cardinality(AliveLoops) = 1
  /\ (\A c \in Callers : pc[c] = "done") =>
       /\ Cardinality(ReturnedTrue) = 1
       /\ \A c \in Callers : ret[c] \in {"True", "False"}

\* every call has returned: one True, the rest False, one loop alive
C1_Witness ==
  /\ \A c \in Callers : pc[c] = "done"
  /\ \E c \in Callers : ret[c] = "True"
  /\ \E c \in Callers : ret[c] = "False"
  /\ Cardinality(AliveLoops) = 1

\* C2: a start call that finds the loop running (it returns False) leaves
\* _auto_interval_seconds, which status reports and the loop passes to its
\* next wait, as it was.
C2_IntervalUntouched ==
  [][\A c \in Callers :
       (pc[c] = "check" /\ pc'[c] = "done")
         => auto_interval_seconds' = auto_interval_seconds]_vars

\* C3: of the append_log calls that run on a store that does not exist yet,
\* exactly one writes the header.
C3_HeaderWrittenOnce == Cardinality(h_header_writes) <= 1

IsPrefixOf(a, b) == Len(a) <= Len(b) /\ SubSeq(b, 1, Len(a)) = a

\* C4: the log is append-only: the records parse_logs reads before a step are
\* a prefix of those it reads after it.
C4_AppendOnly == [][IsPrefixOf(parse_logs(store), parse_logs(store'))]_vars

\* C5: one record per probe: parse_logs returns as many records as append_log
\* calls have completed.
C5_OneRecordPerProbe == Len(parse_logs(store)) = h_appends

\* C12: a call that finds no loop running and has run_initial_test set goes
\* through exactly one probe of its own, appends its line of mode auto and
\* only then returns True, the loop's count of wake-ups untouched; without
\* run_initial_test it returns True with the store untouched; a call that
\* finds a loop running returns False with the store untouched and no probe;
\* a call that has returned does nothing more.
C12_InitialProbe ==
  [][\A c \in Callers :
       /\ (pc[c] = "check" /\ pc'[c] # "check") =>
            IF already_running
            THEN /\ pc'[c] = "done" /\ ret'[c] = "False"
                 /\ store' = store /\ h_appends' = h_appends
                 /\ loop_probes' = loop_probes
            ELSE pc'[c] = "launch"
       /\ (pc[c] = "launch" /\ pc'[c] # "launch") =>
            IF run_initial_test[c]
            THEN pc'[c] = "test" /\ ret'[c] = "none"
            ELSE pc'[c] = "done" /\ ret'[c] = "True" /\ store' = store
       /\ (pc[c] # "test" /\ pc'[c] = "test") => pc[c] = "launch"
       /\ (pc[c] = "test" /\ pc'[c] # "test") => pc'[c] = "exists"
       /\ (pc[c] = "exists" /\ pc'[c] # "exists") => pc'[c] \in {"header", "write"}
       /\ (pc[c] = "header" /\ pc'[c] # "header") => pc'[c] = "write"
       /\ (pc[c] = "write" /\ pc'[c] # "write") =>
            /\ pc'[c] = "done" /\ ret'[c] = "True"
            /\ h_appends' = h_appends + 1
            /\ loop_probes' = loop_probes
            /\ store'.text = store.text \o line[c]
            /\ Len(parse_logs(store')) >= 1
            /\ Last(parse_logs(store')).mode = Str("auto")
       /\ pc[c] = "done" => pc'[c] = "done" /\ ret'[c] = ret[c]]_vars

\* one call has returned True after its initial probe, the only probe so far,
\* and another has returned False
C12_Witness ==
  /\ \E c \in Callers : pc[c] = "done" /\ ret[c] = "True"
  /\ \E c \in Callers : pc[c] = "done" /\ ret[c] = "False"
  /\ h_appends = 1
  /\ loop_probes = 0
  /\ Len(parse_logs(store)) = 1

\* max(1, i) for the intervals a call may ask for
ClampedArgs == {IF i >= 1 THEN i ELSE 1 : i \in IntervalArgs}

\* what a call that finds no loop running does inside the lock: the interval
\* recorded, the flag cleared, one more thread launched, status reporting it
StartEffects(c) ==
  (pc[c] = "launch" /\ pc'[c] # "launch") =>
    /\ ~auto_stop_event'
    /\ Cardinality(Launched') = Cardinality(Launched) + 1
    /\ Cardinality(AliveLoops') = 1
    /\ api_auto_status' =
         [running |-> TRUE, interval_seconds |-> interval_seconds[c]]

\* the interval is an integer >= 1, 30 before any start
IntervalAtLeastOne ==
  /\ auto_interval_seconds \in Nat /\ auto_interval_seconds >= 1
  /\ (\A c \in Callers : pc[c] \in {"idle", "lock"}) =>
       auto_interval_seconds = DEFAULT_AUTO_INTERVAL_SECONDS
  /\ \A c \in Callers :
       (pc[c] = "idle" /\ pc'[c] # "idle") => interval_seconds'[c] \in ClampedArgs

\* C13: the interval is an integer >= 1 in every state, 30 before any start;
\* a call that finds no loop running records max(1, requested), clears the
\* stop flag and launches exactly one thread, and when that call returns
\* status reports running = true with the interval it recorded.
C13_StartRecordsInterval ==
  [][/\ IntervalAtLeastOne
     /\ \A c \in Callers :
          /\ StartEffects(c)
          /\ (ret[c] = "none" /\ ret'[c] = "True") =>
               api_auto_status' =
                 [running |-> TRUE, interval_seconds |-> interval_seconds[c]]]_vars

\* C13, at the moment the call leaves the lock
C13_AtLaunch ==
  [][IntervalAtLeastOne /\ \A c \in Callers : StartEffects(c)]_vars

\* C6: a loop thread ends only at a wake-up that finds the stop flag set, and
\* such a wake-up begins no probe; a wake-up that finds it unset begins exactly
\* one probe; a probe begun runs through the existence check and the writes to
\* the appending of its one line, of mode auto, whatever the flag, and only
\* then does the loop wait again.
C6_StopAtWakeOnly ==
  [][\A t \in Loops :
       /\ (pc[t] = "waiting" /\ pc'[t] # "waiting") =>
            IF auto_stop_event
            THEN pc'[t] = "done" /\ loop_probes' = loop_probes
            ELSE pc'[t] = "test" /\ loop_probes' = loop_probes + 1
       /\ (pc[t] # "done" /\ pc'[t] = "done") =>
            (pc[t] = "waiting" /\ auto_stop_event)
       /\ (pc[t] = "test" /\ pc'[t] # "test") => pc'[t] = "exists"
       /\ (pc[t] = "exists" /\ pc'[t] # "exists") => pc'[t] \in {"header", "write"}
       /\ (pc[t] = "header" /\ pc'[t] # "header") => pc'[t] = "write"
       /\ (pc[t] = "write" /\ pc'[t] # "write") =>
            /\ pc'[t] = "top"
            /\ h_appends' = h_appends + 1
            /\ store'.text = store.text \o line[t]
            /\ Len(parse_logs(store')) >= 1
            /\ Last(parse_logs(store')).mode = Str("auto")
       /\ (pc[t] = "top" /\ pc'[t] # "top") => pc'[t] = "waiting"]_vars

\* the flag was raised while a probe was in flight: the probe was appended,
\* and the thread ended at its next wake-up
C6_Witness ==
  /\ auto_stop_event
  /\ h_stop_in_flight
  /\ \E t \in Loops : pc[t] = "done"
  /\ loop_probes >= 1
  /\ h_appends >= 1

\* ------------------------------------------------ the loop, fairly scheduled
\* a step of the loop thread: lines 44-46 and the append_log they call
auto_test_loop(t) ==
  \/ auto_test_loop_wait(t)
  \/ auto_test_loop_wake(t)
  \/ run_connectivity_test(t)
  \/ append_log_exists(t)
  \/ append_log_header(t)
  \/ append_log_write(t)

\* the program with its loop thread scheduled again and again: a started
\* thread that can take a step takes it, wait() returning when the interval
\* has passed and the probe within its timeout
SpecLive == Spec /\ \A t \in Loops : WF_vars(auto_test_loop(t))

\* the loop has made every probe the bound allows, each one appended, and is
\* back at its wait
LoopAppendedAll ==
  \E t \in Loops :
    /\ pc[t] \in {"top", "waiting"}
    /\ loop_probes = MaxLoopProbes
    /\ h_appends >= MaxLoopProbes

\* C20: nothing the program can do sets the stop signal; so, once a
\* start_auto_testing call has launched the loop, the status reports running
\* in every later state, and the loop goes on to probe and append auto
\* records (here: every probe the bound allows), no probe or append raising.
C20_RunsForever ==
  /\ [](~auto_stop_event)
  /\ [](Launched # {} => api_auto_status.running)
  /\ [][api_auto_status.running => (api_auto_status.running)']_vars
  /\ (Launched # {}) ~> LoopAppendedAll

\* a loop was launched, has probed and appended after the launching call's
\* initial probe, and is waiting again, still reported running
C20_Witness ==
  /\ Launched # {}
  /\ api_auto_status.running
  /\ loop_probes = MaxLoopProbes
  /\ \E t \in Loops : pc[t] = "waiting"
  /\ h_appends >= 2
  /\ \E c \in Callers : pc[c] = "done" /\ ret[c] = "True"

\* ---------------------------------------------------- the statistics alone
\* GET /api/stats: api_stats() on the store as it is, at the current time
api_stats_request ==
  /\ resp.kind = "none"
  /\ UNCHANGED <<sched_vars, caller_vars, hist_vars, store, clock, pc, line,
                 timeout, loop_probes>>
  /\ resp' = api_stats(store, clock)

\* the times the statistics are asked for: 10:30:00 and 11:00:00 of day 2
NOW0 == 2 * 86400 + 10 * 3600 + 30 * 60
NowSamples == {NOW0, NOW0 + 1800}

\* one line of the store, as append_log lays it out
RowLine(ts, status, latency, detail) ==
  JoinTab(<<ts, Str("auto"), Str(status), latency, detail>>) \o <<NL>>

Ok204 == <<W("HTTP"), SP, W("204")>>

Lat == Fmt2f(12344)

\* the lines a store is drawn from: records some minutes before the current
\* time, records at the edges of the two windows and in the hour to come, and
\* malformed lines (a timestamp without a space, one that is no date, a status
\* that is neither success nor failed, a latency that is no number followed
\* by a sixth field, a line of two fields)
LineSamples ==
  { RowLine(Strftime(NOW0 - 420), "success", Lat, Ok204),
    RowLine(Strftime(NOW0 - 360), "failed", <<>>, Ok204),
    RowLine(Strftime(NOW0 - 300), "failed", <<>>, Ok204),
    RowLine(Strftime(NOW0), "success", Lat, Ok204),
    RowLine(Strftime(NOW0 - 23 * 3600), "success", Lat, Ok204),
    RowLine(Strftime(NOW0 - 47 * 3600), "failed", <<>>, Ok204),
    RowLine(Strftime(NOW0 + 3600), "success", Lat, Ok204),
    RowLine(<<W("garbage")>>, "failed", <<>>, Ok204),
    RowLine(<<W("not"), SP, W("time")>>, "success", Lat, Ok204),
    RowLine(Strftime(NOW0), "weird", <<>>, Ok204),
    RowLine(Strftime(NOW0), "success", <<W("fast")>>, Ok204 \o <<TAB, W("extra")>>),
    <<W("short"), TAB, W("line"), NL>> }

RECURSIVE Flatten(_)
Flatten(ls) == IF ls = <<>> THEN <<>> ELSE Head(ls) \o Flatten(Tail(ls))

\* the stores drawn: no file, or the header and up to MaxRows lines
StoreSamples ==
  { [exists |-> FALSE, text |-> <<>>] }
  \cup
  { [exists |-> TRUE, text |-> HEADER \o Flatten(ls)] :
      ls \in UNION { [1..k -> LineSamples] : k \in 0..MaxRows } }

InitStats ==
  /\ auto_lock = 0
  /\ auto_stop_event = FALSE
  /\ auto_thread = 0
  /\ auto_interval_seconds = DEFAULT_AUTO_INTERVAL_SECONDS
  /\ store \in StoreSamples
  /\ clock \in NowSamples
  /\ pc = [p \in Procs |-> IF p \in Callers THEN "idle" ELSE "unborn"]
  /\ interval_seconds = [c \in Callers |-> 0]
  /\ run_initial_test = [c \in Callers |-> FALSE]
  /\ ret = [c \in Callers |-> "none"]
  /\ line = [p \in Procs |-> <<>>]
  /\ timeout = [t \in Loops |-> 0]
  /\ loop_probes = 0
  /\ h_header_writes = {}
  /\ h_appends = 0
  /\ h_stop_in_flight = FALSE
  /\ h_call = <<>>
  /\ resp = NoResp

NextStats == api_stats_request

StatsSpec == InitStats /\ [][NextStats]_vars

\* ------------------------------------------------- claims on the statistics
Answered == resp.kind # "none"
Rows == parse_logs(store)
Body == resp.body[1]

\* seconds as minutes to one decimal, in tenths: the m with 6m - 3 <= d < 6m + 3
Tenths(d) == IF d <= 0 THEN 0 ELSE CHOOSE m \in 0..(d \div 6 + 1) : 6 * m - 3 <= d /\ d < 6 * m + 3

Failed(rows, i) == rows[i].status = Str("failed")
WellFormed(rows, i) == Strptime(rows[i].timestamp) # None
Time(rows, i) == Strptime(rows[i].timestamp)[1]
Min(S) == CHOOSE x \in S : \A y \in S : x <= y
Max(S) == CHOOSE x \in S : \A y \in S : x >= y

\* C7: whatever the lines of the store, a line of fewer than 5 fields, a
\* timestamp that is no date or holds no space, or a status that is neither
\* success nor failed among them, api_stats answers with statistics and does
\* not raise.
C7_StatsAlwaysAnswer == Answered => resp.kind = "ok"

\* the trailing run of failed records: from its first record to the last
TrailingFailedRun(rows) ==
  LET n == Len(rows)
      k == CHOOSE j \in 1..n :
             /\ \A i \in j..n : Failed(rows, i)
             /\ j = 1 \/ ~Failed(rows, j - 1)
  IN k..n

\* what C8 says of consecutive_failed_minutes: 0.0 unless the latest record is
\* failed, else the minutes from the earliest to the latest record of the
\* trailing failed run that bears a timestamp, never below 0
ExpectedConsecutiveFailed(rows) ==
  IF rows = <<>> \/ ~Failed(rows, Len(rows)) THEN 0
  ELSE LET good == {i \in TrailingFailedRun(rows) : WellFormed(rows, i)} IN
       IF good = {} THEN 0
       ELSE Tenths(Time(rows, Max(good)) - Time(rows, Min(good)))

\* C8: for every record sequence api_stats reports consecutive_failed_minutes,
\* which is 0.0 unless the latest record is failed and then is the elapsed
\* minutes between the earliest and the latest timestamp of the trailing run
\* of failed records, clamped and rounded (0.0 for a single failed record).
C8_ConsecutiveFailed ==
  Answered =>
    /\ resp.kind = "ok"
    /\ Body.consecutive_failed_minutes = ExpectedConsecutiveFailed(Rows)

\* C8, where api_stats answers: the value is the one the claim gives
C8_WhenAnswered ==
  resp.kind = "ok" =>
    Body.consecutive_failed_minutes = ExpectedConsecutiveFailed(Rows)

\* what C9 says of sustained_connectivity_minutes
ExpectedSustained(rows) ==
  LET n == Len(rows)
      failed == {i \in 1..n : Failed(rows, i)}
  IN IF n = 0 \/ rows[n].status # Str("success") \/ failed = {} THEN None
     ELSE IF ~WellFormed(rows, n) \/ ~WellFormed(rows, Max(failed)) THEN None
     ELSE Some(Tenths(Time(rows, n) - Time(rows, Max(failed))))

\* C9: for every record sequence api_stats answers, and
\* sustained_connectivity_minutes is null unless the latest record is success
\* and a failed record exists, and then is the elapsed minutes from the last
\* failed record to the latest record, clamped and rounded, or null if either
\* timestamp is malformed.
C9_Sustained ==
  Answered =>
    /\ resp.kind = "ok"
    /\ Body.sustained_connectivity_minutes = ExpectedSustained(Rows)

\* C9, where api_stats answers: the value is the one the claim gives
C9_WhenAnswered ==
  resp.kind = "ok" =>
    Body.sustained_connectivity_minutes = ExpectedSustained(Rows)

\* the records of the hour named key
RowsOfHour(rows, key) ==
  {i \in 1..Len(rows) : WellFormed(rows, i) /\ HourKey(Time(rows, i)) = key}

\* a list of n entries, one for each consecutive hour ending at the current
\* hour, an hour without records showing no failure and the rate 0.0
FullWindow(hourly, n) ==
  /\ Len(hourly) = n
  /\ \A i \in 1..Len(hourly) :
       /\ hourly[i].hour = HourKey(TruncHour(clock) - 3600 * (n - i))
       /\ RowsOfHour(Rows, hourly[i].hour) = {} =>
            hourly[i].failed = 0 /\ hourly[i].connectivity_rate = 0

\* C10: for every record set and every current time api_stats answers with an
\* hourly_24 of exactly 24 entries and an hourly_48 of exactly 48, one for
\* each consecutive hour ending at the current hour, with rate 0.0 where the
\* hour has no probe.
C10_FullWindows ==
  Answered =>
    /\ resp.kind = "ok"
    /\ FullWindow(Body.hourly_24, 24)
    /\ FullWindow(Body.hourly_48, 48)

\* C10, where api_stats answers: both windows are full
C10_WhenAnswered ==
  resp.kind = "ok" =>
    FullWindow(Body.hourly_24, 24) /\ FullWindow(Body.hourly_48, 48)

\* the records of a status among those whose well-formed timestamp truncates
\* to the hour
CountOfHour(rows, key, status) ==
  Cardinality({i \in RowsOfHour(rows, key) : rows[i].status = Str(status)})

\* each entry of a window of n hours shows the failed records of its hour,
\* and the rate of its success records among its success and failed ones
WindowCounts(hourly, n) ==
  \A i \in 1..Len(hourly) :
    LET key == HourKey(TruncHour(clock) - 3600 * (n - i))
        ok == CountOfHour(Rows, key, "success")
        ko == CountOfHour(Rows, key, "failed")
    IN /\ hourly[i].hour = key
       /\ hourly[i].failed = ko
       /\ hourly[i].connectivity_rate = Rate(ok, ok + ko)

\* the entries of hourly_24 are the last 24 entries of hourly_48
WithinWindow48(hourly_24, hourly_48) ==
  /\ Len(hourly_48) = Len(hourly_24) + 24
  /\ \A i \in 1..Len(hourly_24) : hourly_48[i + 24] = hourly_24[i]

\* C18: for every record set and current time, the counts behind each entry
\* of hourly_24 and of hourly_48 are the numbers of success and of failed
\* records whose well-formed timestamp truncates to the entry's hour, the
\* hours being those of the window ending at the current hour; a record of a
\* later hour, of an hour before the window or of a malformed timestamp is
\* counted in no entry, and what hourly_24 counts hourly_48 counts too.
C18_WindowCounts ==
  Answered =>
    /\ resp.kind = "ok"
    /\ WindowCounts(Body.hourly_24, 24)
    /\ WindowCounts(Body.hourly_48, 48)
    /\ WithinWindow48(Body.hourly_24, Body.hourly_48)

\* C18, where api_stats answers
C18_WhenAnswered ==
  resp.kind = "ok" =>
    /\ WindowCounts(Body.hourly_24, 24)
    /\ WindowCounts(Body.hourly_48, 48)
    /\ WithinWindow48(Body.hourly_24, Body.hourly_48)

\* the two streak metrics of an answer are not negative, not both positive,
\* and each is off when the latest record is of the other status
StreaksExclusive(rows, body) ==
  LET sustained == body.sustained_connectivity_minutes
      consecutive == body.consecutive_failed_minutes
      latest_failed == rows # <<>> /\ Failed(rows, Len(rows))
  IN /\ consecutive >= 0
     /\ sustained # None => sustained[1] >= 0
     /\ ~(sustained # None /\ sustained[1] > 0 /\ consecutive > 0)
     /\ latest_failed => sustained = None
     /\ ~latest_failed => consecutive = 0

\* C19: for every record sequence api_stats answers with a
\* sustained_connectivity_minutes that is null or >= 0 and a
\* consecutive_failed_minutes >= 0, also when timestamps go backwards; the
\* two are never both positive: the first is null whenever the latest record
\* is failed, the second is 0.0 whenever the latest record is not failed or
\* there is no record.
C19_StreaksExclusive ==
  Answered => (resp.kind = "ok" /\ StreaksExclusive(Rows, Body))

\* C19, where api_stats answers
C19_WhenAnswered ==
  resp.kind = "ok" => StreaksExclusive(Rows, Body)

\* a store that does not exist, or that holds the header line and nothing else
EmptyStore == ~store.exists \/ store.text = HEADER

\* C16: a store that holds only the header line, and likewise a store that
\* does not exist, yields total = 0, success_rate = 0.0, avg_latency_ms =
\* null and an empty recent list, and api_stats does not raise.
C16_EmptyStore ==
  (Answered /\ EmptyStore) =>
    /\ resp.kind = "ok"
    /\ Body.total = 0
    /\ Body.success_rate = 0
    /\ Body.avg_latency_ms = None
    /\ "recent" \in DOMAIN Body
    /\ Body.recent = <<>>

\* C16 without the recent list, which the response does not carry
C16_EmptySummary ==
  (Answered /\ EmptyStore) =>
    /\ resp.kind = "ok"
    /\ Body.total = 0
    /\ Body.success = 0
    /\ Body.failed = 0
    /\ Body.success_rate = 0
    /\ Body.avg_latency_ms = None
    /\ "recent" \notin DOMAIN Body

\* ------------------------------------------------------- the HTTP endpoints
\* everything but the response
state_vars ==
  <<sched_vars, caller_vars, hist_vars, store, clock, pc, line, timeout,
    loop_probes>>

\* operation_disabled_response(), lines 27-28
operation_disabled_response ==
  [kind |-> "disabled", error |-> "operation disabled in production mode",
   body |-> <<403>>]

\* POST /api/test
api_test ==
  /\ resp.kind = "none"
  /\ resp' = operation_disabled_response
  /\ UNCHANGED state_vars

\* POST /api/test/auto
api_test_auto ==
  /\ resp.kind = "none"
  /\ resp' = operation_disabled_response
  /\ UNCHANGED state_vars

\* POST /api/auto/start
api_auto_start ==
  /\ resp.kind = "none"
  /\ resp' = operation_disabled_response
  /\ UNCHANGED state_vars

\* a stop endpoint that is not disabled: it raises the stop flag under the
\* lock, forgets the thread and answers whether one was running
api_auto_stop_enabled ==
  /\ resp.kind = "none"
  /\ LockAvailable
  /\ auto_stop_event' = TRUE
  /\ auto_thread' = 0
  /\ resp' = [kind |-> "stopped", error |-> "", body |-> <<api_auto_status.running>>]
  /\ UNCHANGED <<auto_lock, auto_interval_seconds, caller_vars, hist_vars,
                 store, clock, pc, line, timeout, loop_probes>>

\* POST /api/auto/stop
api_auto_stop ==
  /\ resp.kind = "none"
  /\ resp' = operation_disabled_response
  /\ UNCHANGED state_vars

\* GET /api/auto/status
api_auto_status_request ==
  /\ resp.kind = "none"
  /\ resp' = [kind |-> "status", error |-> "", body |-> <<api_auto_status>>]
  /\ UNCHANGED state_vars

\* GET /api/log, lines 273-277: "" for no file, else the file read as text
api_log ==
  /\ resp.kind = "none"
  /\ resp' = [kind |-> "log", error |-> "",
              body |-> <<IF ~store.exists THEN <<>>
                         ELSE UniversalNewlines(store.text)>>]
  /\ UNCHANGED state_vars

\* the response is handed to the client; the next request can come
response_sent ==
  /\ resp.kind # "none"
  /\ resp' = NoResp
  /\ UNCHANGED state_vars

\* the scheduler and the endpoints together; a request is answered before
\* the threads move on
NextApi ==
  \/ resp.kind = "none" /\ Next
  \/ api_test
  \/ api_test_auto
  \/ api_auto_start
  \/ api_auto_stop
  \/ api_auto_status_request
  \/ api_stats_request
  \/ api_log
  \/ response_sent

ApiSpec == Init /\ [][NextApi]_vars

\* ------------------------------------------------- claims on the endpoints
Disabled == resp' = operation_disabled_response /\ UNCHANGED state_vars

\* C14: each of POST /api/test, /api/test/auto, /api/auto/start and
\* /api/auto/stop answers with the one fixed "operation disabled" error and
\* changes neither the scheduler nor the store; GET /api/auto/status,
\* /api/stats and /api/log answer (the status as it is, the statistics, the
\* content of the store) and change neither.
C14_DisabledAndReadOnly ==
  [][/\ api_test => Disabled
     /\ api_test_auto => Disabled
     /\ api_auto_start => Disabled
     /\ api_auto_stop => Disabled
     /\ api_auto_status_request =>
          /\ resp'.kind = "status" /\ resp'.body = <<api_auto_status>>
          /\ UNCHANGED state_vars
     /\ (resp'.kind \in {"ok", "raise"} /\ api_stats_request) =>
          /\ resp'.kind = "ok" /\ resp'.body[1].total = Len(parse_logs(store))
          /\ UNCHANGED state_vars
     /\ api_log =>
          /\ resp'.kind = "log"
          /\ UNCHANGED state_vars]_vars

\* a disabled answer given while a loop runs and the store holds a record
C14_Witness ==
  /\ resp = operation_disabled_response
  /\ api_auto_status.running
  /\ Len(parse_logs(store)) >= 1

\* C15: POST /api/auto/stop, when no loop runs, answers wasRunning = false
\* and changes nothing; when a loop runs, it raises the stop flag and clears
\* the thread handle, so that status then reports running = false.
C15_StopStops ==
  [][api_auto_stop =>
       IF api_auto_status.running
       THEN /\ auto_stop_event'
            /\ auto_thread' = 0
            /\ ~api_auto_status'.running
       ELSE /\ resp' = [kind |-> "stopped", error |-> "", body |-> <<FALSE>>]
            /\ UNCHANGED state_vars]_vars

\* C15, amended: POST /api/auto/stop is disabled: whether or not a loop runs
\* it answers with the fixed "operation disabled" error and changes nothing,
\* any number of times; a running loop is not signalled, its handle is kept
\* and status goes on reporting running = true; the stop flag is never set.
C15_StopDisabled ==
  [][/\ ~auto_stop_event /\ ~auto_stop_event'
     /\ api_auto_stop =>
          /\ resp' = operation_disabled_response
          /\ api_auto_status' = api_auto_status
          /\ auto_thread' = auto_thread
          /\ store' = store
          /\ pc' = pc]_vars

\* the disabled answer, a loop still waiting for its next wake-up, its
\* handle kept and the flag unset
C15_Witness ==
  /\ resp = operation_disabled_response
  /\ auto_thread # 0 /\ pc[auto_thread] = "waiting"
  /\ ~auto_stop_event

\* ------------------------------------------- the log store, one call at a time
\* append_log(mode, status, latency_ms, detail) run from start to end by one
\* thread (lines 71-83): the store it leaves
append_log(st, now, mode, r) ==
  [exists |-> TRUE,
   text |-> (IF ~st.exists THEN HEADER ELSE st.text) \o FormatLine(now, mode, r)]

\* the (status, latency_ms, detail) append_log is called with: latencies that
\* "%.2f" rounds down and up, a latency of 0, no latency; details that are
\* plain, empty, hold a tab and a newline, hold a carriage return
RecordSamples ==
  { [status |-> "success", latency |-> Some(12344), detail |-> Ok204],
    [status |-> "success", latency |-> Some(12346), detail |-> <<>>],
    [status |-> "failed", latency |-> Some(0), detail |-> Ok204],
    [status |-> "failed", latency |-> None,
     detail |-> <<W("refused"), TAB, W("by"), NL, W("peer")>>],
    [status |-> "failed", latency |-> None,
     detail |-> <<W("bad"), CR, W("gateway")>>] }

ModeSamples == {"auto", "manual"}

\* a whole append_log call, at a time not before the last one read
append_log_call ==
  /\ h_appends < MaxAppends
  /\ \E mode \in ModeSamples, r \in RecordSamples,
        now \in {t \in NowSamples : t >= clock} :
       /\ clock' = now
       /\ store' = append_log(store, now, mode, r)
       /\ h_call' = <<[mode |-> mode, status |-> r.status,
                       latency |-> r.latency, detail |-> r.detail]>>
  /\ h_appends' = h_appends + 1
  /\ resp' = NoResp
  /\ UNCHANGED <<sched_vars, caller_vars, h_header_writes, h_stop_in_flight,
                 pc, line, timeout, loop_probes>>

\* a call of parse_logs(): the rows it returns
parse_logs_call ==
  /\ resp.kind = "none"
  /\ resp' = [kind |-> "rows", error |-> "", body |-> parse_logs(store)]
  /\ UNCHANGED <<sched_vars, caller_vars, hist_vars, store, clock, pc, line,
                 timeout, loop_probes>>

\* the stores the calls start from: no file, the header alone, the header and
\* one line
\* stores as another writer may leave them: a line of two fields and an empty
\* line before a line of six fields whose latency is no number; a file with
\* no header, whose first line is a record
SixFields ==
  RowLine(Strftime(NOW0), "success", <<W("fast")>>, Ok204 \o <<TAB, W("extra")>>)

ReplaySamples ==
  { HEADER \o <<W("short"), TAB, W("line"), NL, NL>> \o SixFields,
    RowLine(Strftime(NOW0 - 420), "success", Lat, Ok204)
      \o RowLine(Strftime(NOW0 - 360), "failed", <<>>, Ok204) }

LogStoreSamples ==
  { [exists |-> FALSE, text |-> <<>>], [exists |-> TRUE, text |-> HEADER] }
  \cup { [exists |-> TRUE, text |-> HEADER \o l] : l \in LineSamples }
  \cup { [exists |-> TRUE, text |-> t] : t \in ReplaySamples }

InitLog ==
  /\ auto_lock = 0
  /\ auto_stop_event = FALSE
  /\ auto_thread = 0
  /\ auto_interval_seconds = DEFAULT_AUTO_INTERVAL_SECONDS
  /\ store \in LogStoreSamples
  /\ clock \in NowSamples
  /\ pc = [p \in Procs |-> IF p \in Callers THEN "idle" ELSE "unborn"]
  /\ interval_seconds = [c \in Callers |-> 0]
  /\ run_initial_test = [c \in Callers |-> FALSE]
  /\ ret = [c \in Callers |-> "none"]
  /\ line = [p \in Procs |-> <<>>]
  /\ timeout = [t \in Loops |-> 0]
  /\ loop_probes = 0
  /\ h_header_writes = {}
  /\ h_appends = 0
  /\ h_stop_in_flight = FALSE
  /\ h_call = <<>>
  /\ resp = NoResp

NextLog ==
  \/ append_log_call
  \/ parse_logs_call

LogSpec == InitLog /\ [][NextLog]_vars

\* ------------------------------------------------- claims on the log store
\* what C11 says parse_logs returns for the record of a call: mode and status
\* as given, no latency for None and else the latency to the nearest
\* hundredth, the detail with each tab and newline turned into a space
ExpectedRow(c, now) ==
  [timestamp |-> Strftime(now),
   mode |-> Str(c.mode),
   status |-> Str(c.status),
   latency_ms |-> IF c.latency = None THEN None
                  ELSE Some(10 * ((c.latency[1] + 5) \div 10)),
   detail |-> [i \in 1..Len(c.detail) |->
                 IF c.detail[i] \in {TAB, NL} THEN SP ELSE c.detail[i]]]

\* C11: an append_log call adds exactly one record to what parse_logs
\* returns, the last one: its mode and status are those of the call, its
\* latency is null for None and else the value to 2 decimals, its detail is
\* the call's with every tab and newline replaced by a space.
C11_RoundTrip ==
  [][h_appends' # h_appends =>
       parse_logs(store') =
         parse_logs(store) \o <<ExpectedRow(h_call'[1], clock')>>]_vars

\* C11, for a detail that holds no carriage return
C11_WithoutCarriageReturn ==
  [][(h_appends' # h_appends
        /\ \A i \in 1..Len(h_call'[1].detail) : h_call'[1].detail[i] # CR) =>
       parse_logs(store') =
         parse_logs(store) \o <<ExpectedRow(h_call'[1], clock')>>]_vars

\* the fields of a line as read: the line without its newline, cut at the tabs
Fields(l) == Split(RStripNL(l), TAB)

\* a latency field float() reads as a number
IsNumber(f) == LET t == StripSP(f) IN Len(t) = 1 /\ t[1].k = "num"

\* the lines after the first, as a text-mode read yields them and as the
\* newlines of the file delimit them
LinesRead == LET ls == FileLines(store.text) IN IF ls = <<>> THEN <<>> ELSE Tail(ls)
LinesWritten ==
  LET ls == Split(store.text, NL)
  IN IF Len(ls) <= 1 THEN <<>> ELSE Tail(ls)

\* C17: parse_logs skips the first line of the store and returns, in write
\* order, exactly one record for each remaining line of at least 5
\* tab-separated fields: a line of fewer fields gives no record and no
\* error, the fields after the fifth are ignored, and a latency field that
\* is empty or no number gives a null latency.
C17_ParseLogs ==
  resp.kind = "rows" =>
    LET kept == IF store.exists
                THEN SelectSeq(LinesRead, LAMBDA l : Len(Fields(l)) >= 5)
                ELSE <<>>
        rows == resp.body
    IN /\ Len(rows) = Len(kept)
       /\ \A k \in 1..Len(kept) :
            LET f == Fields(kept[k]) IN
            /\ rows[k].timestamp = f[1]
            /\ rows[k].mode = f[2]
            /\ rows[k].status = f[3]
            /\ rows[k].detail = f[5]
            /\ rows[k].latency_ms # None <=> IsNumber(f[4])
            /\ IsNumber(f[4]) => rows[k].latency_ms = Some(StripSP(f[4])[1].n * 10)
       /\ store.exists =>
            Len(rows) = Len(SelectSeq(LinesWritten, LAMBDA l : Len(Fields(l)) >= 5))

\* parse_logs has answered for a store whose first line is a record, not the
\* header, and for one with a line of two fields, an empty line and a line
\* of six fields whose latency is no number
C17_Witness ==
  /\ resp.kind = "rows"
  /\ store.exists
  /\ Len(LinesRead) >= 3
  /\ \E l \in {LinesRead[k] : k \in 1..Len(LinesRead)} : Len(Fields(l)) < 5
  /\ \E k \in 1..Len(resp.body) :
       /\ resp.body[k].latency_ms = None
       /\ resp.body[k].detail = Ok204
       /\ resp.body[k].status = Str("success")
  /\ Len(resp.body) >= 2

====
